---- MODULE Spec2Model ----
(***************************************************************************)
(* A model of fdr (KineticCookie/fdr): the `show-news` command of          *)
(* src/src/main.rs and the library functions of src/src/lib.rs it calls.   *)
(*                                                                         *)
(* Text (identifiers, titles, links, the content of seen.txt) is a         *)
(* sequence of one-character strings, so that joining a record with "\n"   *)
(* and splitting a file into lines are computed, not assumed.              *)
(***************************************************************************)
EXTENDS Integers, Sequences, FiniteSets, TLC

VARIABLES
    seen_txt,        \* the file "seen.txt": [kind, content]
    pc,              \* position of the show_news process
    all,             \* show_news argument `all`
    sort,            \* show_news argument `sort`
    rss_outlines,    \* main.rs:50, the outlines left by get_rss_outlines
    nfetched,        \* how many outlines the loop of main.rs:52 has taken
    nraw,            \* raw entries fetched so far in this run (bounded)
    channel,         \* main.rs:53, the channel of the current loop iteration
    warned,          \* stderr lines of the latest read_feed_items call
    all_items,       \* main.rs:51
    combined,        \* history: all_items as it was before the sort
    previous_guids,  \* main.rs:44
    loaded,          \* history: previous_guids as loaded at the start
    idx,             \* position of the loop of main.rs:67 in all_items
    displayed,       \* stdout: the lines printed by FeedItem::show
    shown,           \* history: the positions in all_items that were shown
    script,          \* the feeds of a run, kept to run it again (RunTwice)
    prev,            \* history: the previous run of RunTwice
    delta,           \* argument of the date_diff call under study
    phrase,          \* its result
    entry,           \* argument of the FeedItem::make call under study
    made             \* its result, None before the call

vars == <<seen_txt, pc, all, sort, rss_outlines, nfetched, nraw, channel,
          warned, all_items, combined, previous_guids, loaded, idx,
          displayed, shown, script, prev, delta, phrase, entry, made>>

----------------------------------------------------------------------------
(* Bounds of the model.                                                    *)

MaxOutlines == 2      \* outlines in a subscription list
MaxItems == 2         \* raw entries fetched in one run, over all feeds
MaxSeen == 2          \* a run starts only from a record of at most so many
MaxCount == 400       \* largest multiple of a time unit given to date_diff

----------------------------------------------------------------------------
(* Option and Result.                                                      *)

None == <<>>
Some(x) == <<x>>
IsSome(o) == o # <<>>
Unwrap(o) == o[1]

Ok(v) == [ok |-> TRUE, val |-> v]
Err(e) == [ok |-> FALSE, val |-> e]
\* Result::or: the first result if it is Ok, otherwise the second
ResultOr(a, b) == IF a.ok THEN a ELSE b

SeqsUpTo(S, n) == UNION {[1..k -> S] : k \in 0..n}

----------------------------------------------------------------------------
(* chrono::TimeDelta, at a resolution of one second.  num_minutes,         *)
(* num_hours, num_days and num_weeks divide truncating toward zero, and    *)
(* Rust's % is the remainder of that division.                             *)

SecsPerMinute == 60
SecsPerHour == 3600
SecsPerDay == 86400
SecsPerWeek == 604800

Quot(a, b) == IF a >= 0 THEN a \div b ELSE -((-a) \div b)
Rem(a, b) == a - b * Quot(a, b)

\* mutant: the minutes of a duration without its sign
num_minutes_Abs(d) == IF d < 0 THEN Quot(-d, SecsPerMinute)
                      ELSE Quot(d, SecsPerMinute)
num_minutes(d) == Quot(d, SecsPerMinute)
num_hours(d) == Quot(d, SecsPerHour)
num_days(d) == Quot(d, SecsPerDay)
num_weeks(d) == Quot(d, SecsPerWeek)

\* mutant: the years counted as whole years
date_diff_WholeYears(d) ==
    IF num_days(d) = 365 THEN "year ago"
    ELSE IF num_days(d) > 365 THEN ToString(Quot(num_days(d), 365)) \o " years ago"
    ELSE IF num_weeks(d) = 4 THEN "month ago"
    ELSE IF num_weeks(d) > 4 THEN ToString(Rem(num_days(d), 30)) \o " months ago"
    ELSE IF num_weeks(d) = 1 THEN "week ago"
    ELSE IF num_weeks(d) > 1 THEN ToString(num_weeks(d)) \o " weeks ago"
    ELSE IF num_days(d) = 1 THEN "day ago"
    ELSE IF num_days(d) > 1 THEN ToString(num_days(d)) \o " days ago"
    ELSE IF num_hours(d) = 1 THEN "hour ago"
    ELSE IF num_hours(d) > 1 THEN ToString(num_hours(d)) \o " hours ago"
    ELSE IF num_minutes(d) = 1 THEN "minute ago"
    ELSE IF num_minutes(d) > 1 THEN ToString(num_minutes(d)) \o " minutes ago"
    ELSE "just now"

\* lib.rs:129-157
date_diff(d) ==
    IF num_days(d) = 365 THEN "year ago"
    ELSE IF num_days(d) > 365 THEN ToString(Rem(num_days(d), 365)) \o " years ago"
    ELSE IF num_weeks(d) = 4 THEN "month ago"
    ELSE IF num_weeks(d) > 4 THEN ToString(Rem(num_days(d), 30)) \o " months ago"
    ELSE IF num_weeks(d) = 1 THEN "week ago"
    ELSE IF num_weeks(d) > 1 THEN ToString(num_weeks(d)) \o " weeks ago"
    ELSE IF num_days(d) = 1 THEN "day ago"
    ELSE IF num_days(d) > 1 THEN ToString(num_days(d)) \o " days ago"
    ELSE IF num_hours(d) = 1 THEN "hour ago"
    ELSE IF num_hours(d) > 1 THEN ToString(num_hours(d)) \o " hours ago"
    ELSE IF num_minutes(d) = 1 THEN "minute ago"
    ELSE IF num_minutes(d) > 1 THEN ToString(num_minutes(d)) \o " minutes ago"
    ELSE "just now"

----------------------------------------------------------------------------
(* The raw entries a feed can hold (rss::Item as FeedItem::make reads it). *)
(* A publish date string is modelled by the format it is written in and    *)
(* the instant it denotes, in seconds.                                     *)

\* main.rs:88, the instant `now` of the run
Now == 259200

RawPool ==
    { \* explicit guid "a", RFC 2822 date, 90 seconds old
      [guid |-> Some(<<"a">>), title |-> Some(<<"t">>), link |-> Some(<<"l">>),
       pub_date |-> Some([fmt |-> "rfc2822", t |-> Now - 90])],
      \* the same guid under another title, RFC 3339 date, 3 days old
      [guid |-> Some(<<"a">>), title |-> Some(<<"u">>), link |-> Some(<<"l">>),
       pub_date |-> Some([fmt |-> "rfc3339", t |-> 0])],
      \* no guid, same instant as the first
      [guid |-> None, title |-> Some(<<"t">>), link |-> Some(<<"l">>),
       pub_date |-> Some([fmt |-> "rfc2822", t |-> Now - 90])],
      \* a guid holding a line break, dated in the future
      [guid |-> Some(<<"b", "\n", "a">>), title |-> Some(<<"t">>),
       link |-> Some(<<"l">>),
       pub_date |-> Some([fmt |-> "rfc2822", t |-> Now + 60])],
      \* no title
      [guid |-> Some(<<"c">>), title |-> None, link |-> Some(<<"l">>),
       pub_date |-> Some([fmt |-> "rfc2822", t |-> Now - 90])],
      \* no link
      [guid |-> Some(<<"c">>), title |-> Some(<<"t">>), link |-> None,
       pub_date |-> Some([fmt |-> "rfc2822", t |-> Now - 90])] }

\* an rss::Item with no field set
NoEntry == [guid |-> None, title |-> None, link |-> None, pub_date |-> None]

\* rss::Channel: title, link and items
Channels(n) ==
    {[title |-> <<"f">>, link |-> <<"h">>, items |-> its] :
        its \in SeqsUpTo(RawPool, n)}

NoChannel == [title |-> <<>>, link |-> <<>>, items |-> <<>>]

\* lib.rs:80, DateTime::parse_from_rfc2822
parse_from_rfc2822(raw) ==
    IF raw.fmt = "rfc2822" THEN Ok(raw.t) ELSE Err("invalid rfc2822 date")

\* lib.rs:81, DateTime::from_str
from_str(raw) ==
    IF raw.fmt = "rfc3339" THEN Ok(raw.t) ELSE Err("invalid date")

\* mutant: a missing link is reported as a missing title
FeedItem_make_OneReason(item, source_name, source_link) ==
    IF ~IsSome(item.title) \/ ~IsSome(item.link) THEN Err("Title not found")
    ELSE IF ~IsSome(item.pub_date) THEN Err("Pub date not found")
    ELSE LET raw_pub_date == Unwrap(item.pub_date)
             pub_date == ResultOr(parse_from_rfc2822(raw_pub_date),
                                  from_str(raw_pub_date))
         IN  IF ~pub_date.ok THEN Err(pub_date.val)
             ELSE Ok([guid |-> item.guid,
                      title |-> Unwrap(item.title),
                      link |-> Unwrap(item.link),
                      pub_date |-> pub_date.val,
                      source_name |-> source_name,
                      source_url |-> source_link])

\* mutant: only the RFC 2822 parse is tried
FeedItem_make_PrimaryOnly(item, source_name, source_link) ==
    IF ~IsSome(item.title) THEN Err("Title not found")
    ELSE IF ~IsSome(item.link) THEN Err("Link not found")
    ELSE IF ~IsSome(item.pub_date) THEN Err("Pub date not found")
    ELSE LET pub_date == parse_from_rfc2822(Unwrap(item.pub_date))
         IN  IF ~pub_date.ok THEN Err(pub_date.val)
             ELSE Ok([guid |-> item.guid,
                      title |-> Unwrap(item.title),
                      link |-> Unwrap(item.link),
                      pub_date |-> pub_date.val,
                      source_name |-> source_name,
                      source_url |-> source_link])

\* lib.rs:69-91
FeedItem_make(item, source_name, source_link) ==
    IF ~IsSome(item.title) THEN Err("Title not found")
    ELSE IF ~IsSome(item.link) THEN Err("Link not found")
    ELSE IF ~IsSome(item.pub_date) THEN Err("Pub date not found")
    ELSE LET raw_pub_date == Unwrap(item.pub_date)
             pub_date == ResultOr(parse_from_rfc2822(raw_pub_date),
                                  from_str(raw_pub_date))
         IN  IF ~pub_date.ok THEN Err(pub_date.val)
             ELSE Ok([guid |-> item.guid,
                      title |-> Unwrap(item.title),
                      link |-> Unwrap(item.link),
                      pub_date |-> pub_date.val,
                      source_name |-> source_name,
                      source_url |-> source_link])

\* mutant: the guid is ignored
get_id_TitleLink(item) == item.title \o <<"-">> \o item.link

\* lib.rs:94-99
get_id(item) ==
    IF IsSome(item.guid) THEN Unwrap(item.guid)
    ELSE item.title \o <<"-">> \o item.link

\* mutant: every line carries the new marker
show_AlwaysNew(item, now, already_seen) ==
    [source |-> item.source_name,
     new |-> TRUE,
     title |-> item.title,
     ago |-> date_diff(now - item.pub_date),
     link |-> item.link]

\* lib.rs:101-111: the line printed for an item
show(item, now, already_seen) ==
    [source |-> item.source_name,
     new |-> ~already_seen,
     title |-> item.title,
     ago |-> date_diff(now - item.pub_date),
     link |-> item.link]

\* mutant: the first invalid entry ends the feed
read_feed_items_UntilError(ch) ==
    LET converted == [i \in 1..Len(ch.items) |->
                         FeedItem_make(ch.items[i], ch.title, ch.link)]
        bad == {i \in 1..Len(converted) : ~converted[i].ok}
        stop == IF bad = {} THEN Len(converted) + 1
                ELSE CHOOSE k \in bad : \A j \in bad : k <= j
    IN  [items |-> [i \in 1..(stop - 1) |-> converted[i].val],
         warnings |-> IF bad = {} THEN <<>>
                      ELSE <<"[WARNING] Invalid RSS item in feed: "
                                \o converted[stop].val>>]

\* lib.rs:114-125: the items made, and the warnings written to stderr
read_feed_items(ch) ==
    LET converted == [i \in 1..Len(ch.items) |->
                         FeedItem_make(ch.items[i], ch.title, ch.link)]
        failed == SelectSeq(converted, LAMBDA r : ~r.ok)
        successful == SelectSeq(converted, LAMBDA r : r.ok)
    IN  [items |-> [i \in 1..Len(successful) |-> successful[i].val],
         warnings |-> [i \in 1..Len(failed) |->
                          "[WARNING] Invalid RSS item in feed: " \o failed[i].val]]

----------------------------------------------------------------------------
(* The subscription list.                                                  *)

Outlines == [outline_type : {"rss", "atom"}, xml_url : {"u"}]
Opmls == SeqsUpTo(Outlines, MaxOutlines)

\* lib.rs:44-50
get_rss_outlines(opml) == SelectSeq(opml, LAMBDA o : o.outline_type = "rss")

----------------------------------------------------------------------------
(* seen.txt.                                                               *)

\* str::lines: split after every "\n"; a piece loses its final "\n" and,
\* then, a final "\r".  An empty text has no lines.
RECURSIVE SplitInclusive(_)
SplitInclusive(s) ==
    IF s = <<>> THEN <<>>
    ELSE LET nl == {i \in 1..Len(s) : s[i] = "\n"}
         IN  IF nl = {} THEN <<s>>
             ELSE LET i == CHOOSE k \in nl : \A j \in nl : k <= j
                  IN  <<SubSeq(s, 1, i)>> \o SplitInclusive(SubSeq(s, i + 1, Len(s)))

StripLineEnd(line) ==
    IF line # <<>> /\ line[Len(line)] = "\n"
    THEN LET l1 == SubSeq(line, 1, Len(line) - 1)
         IN  IF l1 # <<>> /\ l1[Len(l1)] = "\r"
             THEN SubSeq(l1, 1, Len(l1) - 1)
             ELSE l1
    ELSE line

Lines(s) ==
    LET pieces == SplitInclusive(s)
    IN  [i \in 1..Len(pieces) |-> StripLineEnd(pieces[i])]

\* [String]::join
RECURSIVE Join(_, _)
Join(rec, sep) ==
    IF rec = <<>> THEN <<>>
    ELSE IF Len(rec) = 1 THEN rec[1]
    ELSE rec[1] \o sep \o Join(Tail(rec), sep)

\* mutant: the lines keep their line break
LoadSeen_KeepBreaks(file) ==
    IF file.kind = "file" THEN SplitInclusive(file.content) ELSE <<>>

\* main.rs:44-49: a file that cannot be read gives the empty record
LoadSeen(file) ==
    IF file.kind = "file" THEN Lines(file.content) ELSE <<>>

\* mutant: every identifier is followed by a line break
SaveSeen_TrailingBreak(guids) ==
    [kind |-> "file", content |-> Join(guids, <<"\n">>) \o <<"\n">>]

\* main.rs:75
SaveSeen(guids) == [kind |-> "file", content |-> Join(guids, <<"\n">>)]

----------------------------------------------------------------------------
(* The sort of main.rs:57-65.  slice::sort_by is a stable sort: an element *)
(* goes before the first one it compares Less than.                        *)

SortModes == {"Original", "Desc", "Asc"}

Cmp(x, y) == IF x < y THEN "Less" ELSE IF x = y THEN "Equal" ELSE "Greater"

\* the comparators of main.rs:60 and main.rs:63
Compare(mode, a, b) ==
    IF mode = "Desc" THEN Cmp(b.pub_date, a.pub_date)
    ELSE Cmp(a.pub_date, b.pub_date)

\* mutant: an element goes before the ones it compares Equal to
InsertStable_BeforeEqual(mode, sorted, x) ==
    LET before == {i \in 1..Len(sorted) : Compare(mode, x, sorted[i]) # "Greater"}
        at == IF before = {} THEN Len(sorted) + 1
              ELSE CHOOSE k \in before : \A j \in before : k <= j
    IN  SubSeq(sorted, 1, at - 1) \o <<x>> \o SubSeq(sorted, at, Len(sorted))

InsertStable(mode, sorted, x) ==
    LET before == {i \in 1..Len(sorted) : Compare(mode, x, sorted[i]) = "Less"}
        at == IF before = {} THEN Len(sorted) + 1
              ELSE CHOOSE k \in before : \A j \in before : k <= j
    IN  SubSeq(sorted, 1, at - 1) \o <<x>> \o SubSeq(sorted, at, Len(sorted))

RECURSIVE SortBy(_, _)
SortBy(mode, items) ==
    IF items = <<>> THEN <<>>
    ELSE InsertStable(mode, SortBy(mode, SubSeq(items, 1, Len(items) - 1)),
                      items[Len(items)])

SortItems(mode, items) ==
    IF mode = "Original" THEN items ELSE SortBy(mode, items)

----------------------------------------------------------------------------
(* show_news, main.rs:37-76.                                               *)

\* main.rs:69
AlreadySeen(guids, guid) == \E i \in 1..Len(guids) : guids[i] = guid

\* mutants of the test of main.rs:70
ShouldShow_Always(already_seen, showAll) == TRUE
ShouldShow_UnlessAll(already_seen, showAll) == ~already_seen /\ ~showAll

\* main.rs:70
ShouldShow(already_seen, showAll) == ~already_seen \/ showAll

\* mode "live": every run fetches what the network then holds.  Modes
\* "record" and "replay" are the two runs of the same command over the same
\* feeds: the first records the channels it fetched, the second gets them
\* again.
Live == [mode |-> "live", feeds |-> <<>>, sort |-> "Original"]
NoPrev == [n |-> 0, items |-> <<>>, shown |-> <<>>, loaded |-> <<>>]

\* seen.txt before the first run: not there, or there and not readable
\* as text
InitialFiles ==
    {[kind |-> "absent", content |-> <<>>],
     [kind |-> "unreadable", content |-> <<>>]}

\* no show_news process is running
NoRun ==
    /\ pc = "idle"
    /\ all = FALSE
    /\ sort = "Original"
    /\ rss_outlines = <<>>
    /\ nfetched = 0
    /\ nraw = 0
    /\ channel = NoChannel
    /\ warned = <<>>
    /\ all_items = <<>>
    /\ combined = <<>>
    /\ previous_guids = <<>>
    /\ loaded = <<>>
    /\ idx = 0
    /\ displayed = <<>>
    /\ shown = <<>>

Init ==
    /\ seen_txt \in InitialFiles
    /\ NoRun
    /\ script = Live
    /\ prev = NoPrev
    /\ delta = 0
    /\ phrase = ""
    /\ entry = NoEntry
    /\ made = None

Panicked == {"panic_opml", "panic_fetch", "panic_write"}
Ended == {"done"} \cup Panicked

\* the memory of a process that has ended
ResetRun ==
    /\ pc' = "idle"
    /\ all' = FALSE
    /\ sort' = "Original"
    /\ rss_outlines' = <<>>
    /\ nfetched' = 0
    /\ nraw' = 0
    /\ channel' = NoChannel
    /\ warned' = <<>>
    /\ all_items' = <<>>
    /\ combined' = <<>>
    /\ previous_guids' = <<>>
    /\ loaded' = <<>>
    /\ idx' = 0
    /\ displayed' = <<>>
    /\ shown' = <<>>

\* main.rs:43-51: the subscription list is read, the record is loaded
StartRun(a, s, opml) ==
    /\ all' = a
    /\ sort' = s
    /\ previous_guids' = LoadSeen(seen_txt)
    /\ loaded' = LoadSeen(seen_txt)
    /\ rss_outlines' = get_rss_outlines(opml)
    /\ nfetched' = 0
    /\ nraw' = 0
    /\ channel' = NoChannel
    /\ warned' = <<>>
    /\ all_items' = <<>>
    /\ combined' = <<>>
    /\ idx' = 0
    /\ displayed' = <<>>
    /\ shown' = <<>>
    /\ pc' = "fetch"
    /\ UNCHANGED <<seen_txt, delta, phrase, entry, made>>

Begin ==
    /\ pc = "idle"
    /\ script.mode = "live"
    /\ Len(LoadSeen(seen_txt)) <= MaxSeen
    /\ \E a \in BOOLEAN, s \in SortModes, opml \in Opmls : StartRun(a, s, opml)
    /\ UNCHANGED <<script, prev>>

\* main.rs:43: read_opml(..).unwrap() panics on a list that cannot be read
ReadOpmlFail ==
    /\ pc = "idle"
    /\ script.mode = "live"
    /\ \E a \in BOOLEAN, s \in SortModes :
          /\ all' = a
          /\ sort' = s
    /\ pc' = "panic_opml"
    /\ UNCHANGED <<seen_txt, rss_outlines, nfetched, nraw, channel, warned,
                   all_items, combined, previous_guids, loaded, idx, displayed,
                   shown, script, prev, delta, phrase, entry, made>>

\* main.rs:87-94: the process ends, normally or by a panic, and its memory
\* is gone; seen.txt stays
Exit ==
    /\ pc \in Ended
    /\ script.mode = "live"
    /\ ResetRun
    /\ UNCHANGED <<seen_txt, script, prev, delta, phrase, entry, made>>

\* the channels the fetch of the next outline can return
Responses ==
    IF script.mode = "replay" THEN {script.feeds[nfetched + 1]}
    ELSE Channels(MaxItems - nraw)

\* main.rs:52-56, one iteration whose fetch succeeds
FetchOk ==
    /\ pc = "fetch"
    /\ nfetched < Len(rss_outlines)
    /\ \E ch \in Responses :
          /\ channel' = ch
          /\ warned' = read_feed_items(ch).warnings
          /\ all_items' = all_items \o read_feed_items(ch).items
          /\ nraw' = nraw + Len(ch.items)
          /\ script' = IF script.mode = "record"
                       THEN [script EXCEPT !.feeds = Append(@, ch)]
                       ELSE script
    /\ nfetched' = nfetched + 1
    /\ UNCHANGED <<seen_txt, pc, all, sort, rss_outlines, combined,
                   previous_guids, loaded, idx, displayed, shown, prev, delta,
                   phrase, entry, made>>

\* main.rs:53: read_feed(..).await.unwrap() panics when the fetch fails
FetchFail ==
    /\ pc = "fetch"
    /\ nfetched < Len(rss_outlines)
    /\ script.mode = "live"
    /\ pc' = "panic_fetch"
    /\ UNCHANGED <<seen_txt, all, sort, rss_outlines, nfetched, nraw, channel,
                   warned, all_items, combined, previous_guids, loaded, idx,
                   displayed, shown, script, prev, delta, phrase, entry, made>>

\* main.rs:57-65
SortStep ==
    /\ pc = "fetch"
    /\ nfetched = Len(rss_outlines)
    /\ combined' = all_items
    /\ all_items' = SortItems(sort, all_items)
    /\ channel' = NoChannel
    /\ warned' = <<>>
    /\ idx' = 1
    /\ pc' = "loop"
    /\ UNCHANGED <<seen_txt, all, sort, rss_outlines, nfetched, nraw,
                   previous_guids, loaded, displayed, shown, script, prev,
                   delta, phrase, entry, made>>

\* mutant: seen.txt is rewritten after every displayed item
ProcessItem_WritesEach ==
    /\ pc = "loop"
    /\ idx <= Len(all_items)
    /\ LET item == all_items[idx]
           guid == get_id(item)
           already_seen == AlreadySeen(previous_guids, guid)
       IN  IF ShouldShow(already_seen, all)
           THEN /\ displayed' = Append(displayed, show(item, Now, already_seen))
                /\ shown' = Append(shown, idx)
                /\ previous_guids' = Append(previous_guids, guid)
                /\ seen_txt' = SaveSeen(Append(previous_guids, guid))
           ELSE UNCHANGED <<displayed, shown, previous_guids, seen_txt>>
    /\ idx' = idx + 1
    /\ UNCHANGED <<pc, all, sort, rss_outlines, nfetched, nraw, channel,
                   warned, all_items, combined, loaded, script, prev, delta,
                   phrase, entry, made>>

\* mutant: a displayed item's identifier is put in front of the record
ProcessItem_Prepends ==
    /\ pc = "loop"
    /\ idx <= Len(all_items)
    /\ LET item == all_items[idx]
           guid == get_id(item)
           already_seen == AlreadySeen(previous_guids, guid)
       IN  IF ShouldShow(already_seen, all)
           THEN /\ displayed' = Append(displayed, show(item, Now, already_seen))
                /\ shown' = Append(shown, idx)
                /\ previous_guids' = <<guid>> \o previous_guids
           ELSE UNCHANGED <<displayed, shown, previous_guids>>
    /\ idx' = idx + 1
    /\ UNCHANGED <<seen_txt, pc, all, sort, rss_outlines, nfetched, nraw,
                   channel, warned, all_items, combined, loaded, script, prev,
                   delta, phrase, entry, made>>

\* main.rs:67-74, one iteration
ProcessItem ==
    /\ pc = "loop"
    /\ idx <= Len(all_items)
    /\ LET item == all_items[idx]
           guid == get_id(item)
           already_seen == AlreadySeen(previous_guids, guid)
       IN  IF ShouldShow(already_seen, all)
           THEN /\ displayed' = Append(displayed, show(item, Now, already_seen))
                /\ shown' = Append(shown, idx)
                /\ previous_guids' = Append(previous_guids, guid)
           ELSE UNCHANGED <<displayed, shown, previous_guids>>
    /\ idx' = idx + 1
    /\ UNCHANGED <<seen_txt, pc, all, sort, rss_outlines, nfetched, nraw,
                   channel, warned, all_items, combined, loaded, script, prev,
                   delta, phrase, entry, made>>

\* main.rs:75, the write succeeds
Save ==
    /\ pc = "loop"
    /\ idx > Len(all_items)
    /\ seen_txt' = SaveSeen(previous_guids)
    /\ pc' = "done"
    /\ UNCHANGED <<all, sort, rss_outlines, nfetched, nraw, channel, warned,
                   all_items, combined, previous_guids, loaded, idx, displayed,
                   shown, script, prev, delta, phrase, entry, made>>

\* main.rs:75: std::fs::write(..).unwrap() panics when the write fails
SaveFail ==
    /\ pc = "loop"
    /\ idx > Len(all_items)
    /\ script.mode = "live"
    /\ pc' = "panic_write"
    /\ UNCHANGED <<seen_txt, all, sort, rss_outlines, nfetched, nraw, channel,
                   warned, all_items, combined, previous_guids, loaded, idx,
                   displayed, shown, script, prev, delta, phrase, entry, made>>

Next ==
    \/ Begin
    \/ ReadOpmlFail
    \/ Exit
    \/ FetchOk
    \/ FetchFail
    \/ SortStep
    \/ ProcessItem
    \/ Save
    \/ SaveFail

Spec == Init /\ [][Next]_vars

----------------------------------------------------------------------------
(* RunTwice: show-news run twice in succession, without --all, in the      *)
(* same sort mode and over the same feeds, from a seen.txt that gives an   *)
(* empty record; every collaborator succeeds.                              *)

InitTwice ==
    /\ seen_txt \in InitialFiles
    /\ NoRun
    /\ \E s \in SortModes : script = [mode |-> "record", feeds |-> <<>>, sort |-> s]
    /\ prev = NoPrev
    /\ delta = 0
    /\ phrase = ""
    /\ entry = NoEntry
    /\ made = None

RssOutline == [outline_type |-> "rss", xml_url |-> "u"]

BeginTwice ==
    /\ pc = "idle"
    /\ script.mode # "live"
    /\ prev.n < 2
    /\ \E opml \in Opmls :
          /\ script.mode = "replay" =>
                 opml = [i \in 1..Len(script.feeds) |-> RssOutline]
          /\ StartRun(FALSE, script.sort, opml)
    /\ UNCHANGED <<script, prev>>

ExitTwice ==
    /\ pc = "done"
    /\ script.mode # "live"
    /\ prev' = [n |-> prev.n + 1, items |-> all_items, shown |-> shown,
                loaded |-> loaded]
    /\ script' = [script EXCEPT !.mode = "replay"]
    /\ ResetRun
    /\ UNCHANGED <<seen_txt, delta, phrase, entry, made>>

NextTwice ==
    \/ BeginTwice
    \/ FetchOk
    \/ SortStep
    \/ ProcessItem
    \/ Save
    \/ ExitTwice

SpecTwice == InitTwice /\ [][NextTwice]_vars

----------------------------------------------------------------------------
(* date_diff on its own: one call for each duration of Deltas.             *)

TimeUnits == {1, SecsPerMinute, SecsPerHour, SecsPerDay, SecsPerWeek}

\* multiples of each unit, the second before each, and their negations
Deltas ==
    {sign * (u * k + o) : sign \in {1, -1}, u \in TimeUnits, k \in 0..MaxCount,
                          o \in {-1, 0}}

InitDateDiff ==
    /\ seen_txt \in InitialFiles
    /\ NoRun
    /\ script = Live
    /\ prev = NoPrev
    /\ delta \in Deltas
    /\ phrase = ""
    /\ entry = NoEntry
    /\ made = None

CallDateDiff ==
    /\ pc = "idle"
    /\ phrase = ""
    /\ phrase' = date_diff(delta)
    /\ UNCHANGED <<seen_txt, pc, all, sort, rss_outlines, nfetched, nraw,
                   channel, warned, all_items, combined, previous_guids,
                   loaded, idx, displayed, shown, script, prev, delta, entry,
                   made>>

NextDateDiff == CallDateDiff

SpecDateDiff == InitDateDiff /\ [][NextDateDiff]_vars

----------------------------------------------------------------------------
(* FeedItem::make on its own: one call for each entry of RawEntries.  A    *)
(* field of an rss::Item is an Option<String>: it can be absent, empty or  *)
(* hold text.                                                              *)

RawDates ==
    {[fmt |-> f, t |-> t] : f \in {"rfc2822", "rfc3339", "garbage"},
                            t \in {0, Now + 60}}

RawEntries ==
    [guid : {None, Some(<<"a">>)},
     title : {None, Some(<<>>), Some(<<"t">>)},
     link : {None, Some(<<>>), Some(<<"l">>)},
     pub_date : {None} \cup {Some(d) : d \in RawDates}]

InitMake ==
    /\ seen_txt \in InitialFiles
    /\ NoRun
    /\ script = Live
    /\ prev = NoPrev
    /\ delta = 0
    /\ phrase = ""
    /\ entry \in RawEntries
    /\ made = None

CallMake ==
    /\ pc = "idle"
    /\ made = None
    /\ made' = Some(FeedItem_make(entry, <<"f">>, <<"h">>))
    /\ UNCHANGED <<seen_txt, pc, all, sort, rss_outlines, nfetched, nraw,
                   channel, warned, all_items, combined, previous_guids,
                   loaded, idx, displayed, shown, script, prev, delta, phrase,
                   entry>>

NextMake == CallMake

SpecMake == InitMake /\ [][NextMake]_vars

----------------------------------------------------------------------------
(* Vocabulary of the properties.                                           *)

Count(seq, x) == Cardinality({i \in 1..Len(seq) : seq[i] = x})
IdAt(k) == get_id(all_items[k])
\* the items the loop of main.rs:67 has evaluated so far
Evaluated == IF pc = "loop" THEN 1..(idx - 1)
             ELSE IF pc \in {"done", "panic_write"} THEN 1..Len(all_items)
             ELSE {}
WasShown(k) == \E i \in 1..Len(shown) : shown[i] = k
\* the identifier of item k was in the seen record when k was evaluated:
\* it was loaded, or an earlier item of the run had it
SeenWhenEvaluated(k) ==
    \/ Count(loaded, IdAt(k)) > 0
    \/ \E j \in 1..(k - 1) : IdAt(j) = IdAt(k)

----------------------------------------------------------------------------
\* C1: running show-news twice in succession over the same feeds, without
\* --all and from an empty seen record, the first run displays every
\* normalized item and the second run displays none.
C1_Idempotence ==
    (script.mode = "replay" /\ pc = "done" /\ prev.n = 1 /\ prev.loaded = <<>>)
        => /\ Len(prev.shown) = Len(prev.items)
           /\ shown = <<>>

\* C2: an identifier that is in the seen record when its item is evaluated
\* is not appended again, with or without --all: the record a run holds has
\* every loaded identifier as often as it was loaded and every other one
\* at most once.
C2_NoReappend ==
    pc \in {"loop", "done"} =>
        \A i \in 1..Len(previous_guids) :
            Count(previous_guids, previous_guids[i]) =
                IF Count(loaded, previous_guids[i]) > 0
                THEN Count(loaded, previous_guids[i])
                ELSE 1

\* C3: without --all an item is displayed if and only if its identifier is
\* absent from the seen record when it is evaluated, so no item whose
\* identifier was loaded is displayed; with --all every item is displayed.
C3_DisplayedIffNovel ==
    /\ (pc = "loop" /\ idx <= Len(all_items)) =>
           (AlreadySeen(previous_guids, IdAt(idx)) <=> SeenWhenEvaluated(idx))
    /\ \A k \in Evaluated :
        /\ WasShown(k) <=> (all \/ ~SeenWhenEvaluated(k))
        /\ (~all /\ Count(loaded, IdAt(k)) > 0) => ~WasShown(k)
        /\ Count(shown, k) <= 1

\* a run without --all that has displayed one item and held back another
C3_Witness ==
    /\ pc = "done"
    /\ ~all
    /\ \E k \in 1..Len(all_items) : WasShown(k)
    /\ \E k \in 1..Len(all_items) : ~WasShown(k)

\* C4: after a completed run, with or without --all, the identifier of
\* every item that was absent from the loaded record is in the record the
\* run saved, and seen.txt holds that record joined by line breaks.
C4_NovelRecorded ==
    pc = "done" =>
        /\ \A k \in 1..Len(all_items) :
              Count(loaded, IdAt(k)) = 0 => Count(previous_guids, IdAt(k)) > 0
        /\ seen_txt.kind = "file"
        /\ seen_txt.content = Join(previous_guids, <<"\n">>)

\* a completed run with --all over one item that was loaded and one that
\* was not
C4_Witness ==
    /\ pc = "done"
    /\ all
    /\ \E k \in 1..Len(all_items) : Count(loaded, IdAt(k)) = 0
    /\ \E k \in 1..Len(all_items) : Count(loaded, IdAt(k)) > 0

\* C5: a source whose fetch fails is skipped and the run goes on: no run
\* ends on a failed fetch.
C5_FailedSourceSkipped == pc # "panic_fetch"

Perms(n) == {p \in [1..n -> 1..n] : \A i, j \in 1..n : i # j => p[i] # p[j]}
InOrder(mode, ti, tj, pi, pj) ==
    IF mode = "Original" THEN pi < pj
    ELSE IF mode = "Asc" THEN ti < tj \/ (ti = tj /\ pi < pj)
    ELSE ti > tj \/ (ti = tj /\ pi < pj)
\* C6: the items are processed in the order of the sort mode: Original
\* keeps the order of arrival, Asc has non-decreasing and Desc
\* non-increasing publication instants, items of equal instant keep their
\* order of arrival, and the displayed lines follow that order.
C6_Ordering ==
    pc \in {"loop", "done", "panic_write"} =>
        LET n == Len(all_items)
        IN  /\ Len(combined) = n
            /\ \E p \in Perms(n) :
                  /\ \A i \in 1..n : all_items[i] = combined[p[i]]
                  /\ \A i, j \in 1..n :
                        i < j => InOrder(sort, all_items[i].pub_date,
                                         all_items[j].pub_date, p[i], p[j])
            /\ Len(displayed) = Len(shown)
            /\ \A i \in 1..Len(shown) :
                  /\ shown[i] \in 1..n
                  /\ i > 1 => shown[i - 1] < shown[i]
                  /\ displayed[i].title = all_items[shown[i]].title
                  /\ displayed[i].link = all_items[shown[i]].link

\* a Desc run over two different items of the same instant, both displayed
C6_Witness ==
    /\ pc = "done"
    /\ sort = "Desc"
    /\ Len(all_items) = 2
    /\ all_items[1] # all_items[2]
    /\ all_items[1].pub_date = all_items[2].pub_date
    /\ Len(shown) = 2

\* C7: the identifier of an item is its guid when it has one, otherwise
\* "{title}-{link}"; without --all, of the items of a run that share an
\* identifier only the first is displayed and the identifier is appended
\* once, also when their titles differ.
C7_IdentifierStability ==
    /\ \A k \in 1..Len(all_items) :
          IdAt(k) = IF all_items[k].guid # None THEN all_items[k].guid[1]
                    ELSE all_items[k].title \o <<"-">> \o all_items[k].link
    /\ ~all =>
          \A j \in Evaluated :
             /\ Count(previous_guids, IdAt(j)) =
                   IF Count(loaded, IdAt(j)) > 0 THEN Count(loaded, IdAt(j)) ELSE 1
             /\ \A i \in 1..(j - 1) :
                   (\/ (all_items[i].guid # None /\ all_items[i].guid = all_items[j].guid)
                    \/ (/\ all_items[i].guid = None /\ all_items[j].guid = None
                        /\ all_items[i].title = all_items[j].title
                        /\ all_items[i].link = all_items[j].link))
                   => ~WasShown(j)

\* a run without --all over two items of one guid and different titles
C7_Witness ==
    /\ pc = "done"
    /\ ~all
    /\ Len(all_items) = 2
    /\ all_items[1].guid # None
    /\ all_items[1].guid = all_items[2].guid
    /\ all_items[1].title # all_items[2].title
    /\ shown = <<1>>
    /\ loaded = <<>>

ValidEntry(raw) ==
    /\ raw.title # None
    /\ raw.link # None
    /\ raw.pub_date # None
    /\ raw.pub_date[1].fmt \in {"rfc2822", "rfc3339"}
\* C8: an entry without title or without link gives one warning and no
\* item; the other entries of its feed are appended, in their order, after
\* the items of the feeds fetched before, which stay as they were.
C8_InvalidEntryDropped ==
    [][nfetched' = nfetched + 1 =>
         LET raw == channel'.items
             kept == SelectSeq(raw, ValidEntry)
             base == Len(all_items)
         IN  /\ \A i \in 1..Len(raw) :
                   (raw[i].title = None \/ raw[i].link = None) => ~ValidEntry(raw[i])
             /\ Len(all_items') = base + Len(kept)
             /\ SubSeq(all_items', 1, base) = all_items
             /\ \A i \in 1..Len(kept) :
                   /\ all_items'[base + i].guid = kept[i].guid
                   /\ all_items'[base + i].title = kept[i].title[1]
                   /\ all_items'[base + i].link = kept[i].link[1]
                   /\ all_items'[base + i].pub_date = kept[i].pub_date[1].t
             /\ Len(warned') = Len(raw) - Len(kept)]_vars

\* a feed whose first entry has no title and whose second entry is valid
C8_Witness ==
    /\ pc = "fetch"
    /\ Len(channel.items) = 2
    /\ channel.items[1].title = None
    /\ ValidEntry(channel.items[2])
    /\ Len(warned) = 1
    /\ Len(all_items) = 1

ThresholdTable(d) ==
    LET days == d \div 86400
        weeks == d \div 604800
        hours == d \div 3600
        minutes == d \div 60
    IN  << [when |-> days = 365, say |-> "year ago"],
           [when |-> days > 365, say |-> ToString(days % 365) \o " years ago"],
           [when |-> weeks = 4, say |-> "month ago"],
           [when |-> weeks > 4, say |-> ToString(days % 30) \o " months ago"],
           [when |-> weeks = 1, say |-> "week ago"],
           [when |-> weeks > 1, say |-> ToString(weeks) \o " weeks ago"],
           [when |-> days = 1, say |-> "day ago"],
           [when |-> days > 1, say |-> ToString(days) \o " days ago"],
           [when |-> hours = 1, say |-> "hour ago"],
           [when |-> hours > 1, say |-> ToString(hours) \o " hours ago"],
           [when |-> minutes = 1, say |-> "minute ago"],
           [when |-> minutes > 1, say |-> ToString(minutes) \o " minutes ago"],
           [when |-> TRUE, say |-> "just now"] >>
FirstMatch(rows) ==
    rows[CHOOSE i \in 1..Len(rows) :
            rows[i].when /\ \A j \in 1..(i - 1) : ~rows[j].when].say
NoBreak(line) == \A i \in 1..Len(line) : line[i] # "\n"
IsLinesOf(rec, text) ==
    /\ \A i \in 1..Len(rec) : NoBreak(rec[i])
    /\ \/ rec = <<>> /\ text = <<>>
       \/ rec # <<>> /\ text = Join(rec, <<"\n">>) \o <<"\n">>
       \/ rec # <<>> /\ rec[Len(rec)] # <<>> /\ text = Join(rec, <<"\n">>)
\* C10: loading the seen state does not fail the run: from a seen.txt that
\* is absent or unreadable the run goes on with the empty record, and every
\* identifier is new at its first item; otherwise the record is the lines
\* of the file, in order.
C10_LoadNeverFails ==
    pc \in {"fetch", "loop", "panic_fetch", "panic_write"} =>
        /\ seen_txt.kind = "file" => IsLinesOf(loaded, seen_txt.content)
        /\ seen_txt.kind # "file" =>
              /\ loaded = <<>>
              /\ \A k \in Evaluated :
                    (\A j \in 1..(k - 1) : IdAt(j) # IdAt(k)) =>
                        \E i \in 1..Len(shown) : shown[i] = k /\ displayed[i].new

\* a run that started from an unreadable seen.txt and has displayed an item
C10_Witness ==
    /\ pc = "loop"
    /\ seen_txt.kind = "unreadable"
    /\ loaded = <<>>
    /\ shown # <<>>

----------------------------------------------------------------------------
(* FeedItem::make                                                          *)

\* the FeedItem::make call under study has returned
Made == made # None
MadeResult == made[1]

\* C11: every FeedItem that make constructs has a non-empty title, a
\* non-empty link and a publication date that one of the parsers accepted;
\* an entry without title, link or date gives no FeedItem.
C11_ConstructedNonEmpty ==
    (Made /\ MadeResult.ok) =>
        /\ entry.title # None /\ entry.link # None /\ entry.pub_date # None
        /\ MadeResult.val.title # <<>>
        /\ MadeResult.val.link # <<>>
        /\ entry.pub_date[1].fmt \in {"rfc2822", "rfc3339"}

\* C13: with title and link present, make succeeds with the RFC 2822
\* result when that parse succeeds, with the result of the generic parse
\* when only that one succeeds, and fails exactly when the date is missing
\* or both parses fail.
C13_DateParseOrder ==
    (Made /\ entry.title # None /\ entry.link # None) =>
        /\ entry.pub_date = None => ~MadeResult.ok
        /\ entry.pub_date # None =>
              LET raw == entry.pub_date[1]
                  primary == parse_from_rfc2822(raw)
                  secondary == from_str(raw)
              IN  /\ primary.ok =>
                        MadeResult.ok /\ MadeResult.val.pub_date = primary.val
                  /\ (~primary.ok /\ secondary.ok) =>
                        MadeResult.ok /\ MadeResult.val.pub_date = secondary.val
                  /\ (~primary.ok /\ ~secondary.ok) => ~MadeResult.ok

\* make has built an item from a date only the generic parse accepts
C13_Witness ==
    /\ Made
    /\ MadeResult.ok
    /\ entry.pub_date # None
    /\ entry.pub_date[1].fmt = "rfc3339"
    /\ MadeResult.val.pub_date = Now + 60

\* the entries of the feed just fetched that gave no item, in feed order
Dropped == SelectSeq(channel.items, LAMBDA raw : ~ValidEntry(raw))

\* C12 as stated: an entry without title is reported as "[WARNING]
\* Invalid feed item in feed: missing title", one without link as
\* "[WARNING] Invalid feed item in feed: missing link".
C12_AsStated ==
    channel # NoChannel =>
        /\ Len(warned) = Len(Dropped)
        /\ \A i \in 1..Len(Dropped) :
              /\ Dropped[i].title = None =>
                    warned[i] = "[WARNING] Invalid feed item in feed: missing title"
              /\ (Dropped[i].title # None /\ Dropped[i].link = None) =>
                    warned[i] = "[WARNING] Invalid feed item in feed: missing link"

\* C12: every dropped entry of a feed gives one line on stderr, in feed
\* order; for an entry without title the line is "[WARNING] Invalid RSS
\* item in feed: Title not found", for an entry with a title and without
\* link it is "[WARNING] Invalid RSS item in feed: Link not found".
C12_WarningLines ==
    channel # NoChannel =>
        /\ Len(warned) = Len(Dropped)
        /\ \A i \in 1..Len(Dropped) :
              /\ Dropped[i].title = None =>
                    warned[i] = "[WARNING] Invalid RSS item in feed: Title not found"
              /\ (Dropped[i].title # None /\ Dropped[i].link = None) =>
                    warned[i] = "[WARNING] Invalid RSS item in feed: Link not found"

\* a feed whose first entry has no title and whose second has no link
C12_Witness ==
    /\ pc = "fetch"
    /\ Len(channel.items) = 2
    /\ channel.items[1].title = None
    /\ channel.items[2].title # None /\ channel.items[2].link = None
    /\ Len(warned) = 2

----------------------------------------------------------------------------
(* seen.txt over a run                                                     *)

C15_EmptySourceList ==
    (pc = "done" /\ rss_outlines = <<>>) =>
        /\ displayed = <<>>
        /\ previous_guids = loaded
        /\ seen_txt = [kind |-> "file", content |-> Join(loaded, <<"\n">>)]

\* a completed run over no rss outline that had loaded a non-empty record
C15_Witness ==
    /\ pc = "done"
    /\ rss_outlines = <<>>
    /\ loaded # <<>>
    /\ seen_txt.content # <<>>

\* C16: during and after the loop the record is the loaded record followed
\* by the identifiers of the displayed items, in the order in which the
\* loop processed them; the completed run has written that record.
C16_AppendOnly ==
    pc \in {"loop", "done"} =>
        /\ Len(previous_guids) = Len(loaded) + Len(shown)
        /\ SubSeq(previous_guids, 1, Len(loaded)) = loaded
        /\ \A i \in 1..Len(shown) :
              previous_guids[Len(loaded) + i] = IdAt(shown[i])
        /\ \A i, j \in 1..Len(shown) : i < j => shown[i] < shown[j]
        /\ pc = "done" => seen_txt.content = Join(previous_guids, <<"\n">>)

\* a completed run that loaded a record and added two identifiers to it
C16_Witness ==
    /\ pc = "done"
    /\ loaded # <<>>
    /\ Len(shown) = 2
    /\ Len(previous_guids) = Len(loaded) + 2

----------------------------------------------------------------------------
(* The record from one run to the next                                     *)

\* C17: the file a completed run has written, split into lines as the next
\* run loads it, is the record the run saved, so every identifier of the
\* saved record is found in the loaded one.
C17_RoundTrip ==
    pc = "done" =>
        /\ LoadSeen(seen_txt) = previous_guids
        /\ \A i \in 1..Len(previous_guids) :
              AlreadySeen(LoadSeen(seen_txt), previous_guids[i])

\* C18: no item that the second of two runs displays has the identifier
\* of an item that the first run displayed as new.
C18_NewAtMostOnce ==
    (prev.n >= 1 /\ pc \in {"loop", "done"}) =>
        \A i \in 1..Len(shown) : \A j \in 1..Len(prev.shown) :
            IdAt(shown[i]) # get_id(prev.items[prev.shown[j]])

\* C19: a displayed line carries the new marker if and only if the
\* identifier of its item was absent from the record when the item was
\* evaluated, so an item displayed only because of --all has no marker, and
\* of two displayed items with one identifier the second has no marker.
C19_NewMarker ==
    /\ Len(displayed) = Len(shown)
    /\ \A i \in 1..Len(displayed) :
          /\ displayed[i].new <=> ~SeenWhenEvaluated(shown[i])
          /\ (all /\ SeenWhenEvaluated(shown[i])) => ~displayed[i].new
          /\ \A j \in 1..(i - 1) :
                IdAt(shown[j]) = IdAt(shown[i]) => ~displayed[i].new

\* a run with --all from an empty record that has displayed two items with
\* one identifier, the first with the marker and the second without
C19_Witness ==
    /\ all
    /\ loaded = <<>>
    /\ Len(displayed) = 2
    /\ IdAt(shown[1]) = IdAt(shown[2])
    /\ displayed[1].new
    /\ ~displayed[2].new

\* date_diff of every negative duration of Deltas
NegativeJustNow == \A d \in Deltas : d < 0 => date_diff(d) = "just now"

\* C20: an item dated after now is displayed under the same rule as any
\* other item, its line says "just now" and its identifier is recorded;
\* date_diff gives "just now" for every negative duration.
C20_FutureDate ==
    /\ NegativeJustNow
    /\ \A k \in Evaluated :
          all_items[k].pub_date > Now =>
              /\ WasShown(k) <=> (all \/ ~SeenWhenEvaluated(k))
              /\ \A i \in 1..Len(shown) :
                    shown[i] = k =>
                        /\ displayed[i].ago = "just now"
                        /\ previous_guids[Len(loaded) + i] = IdAt(k)

\* a completed run that displayed an item dated a minute after now
C20_Witness ==
    /\ pc = "done"
    /\ \E i \in 1..Len(shown) :
          /\ all_items[shown[i]].pub_date = Now + 60
          /\ displayed[i].ago = "just now"
          /\ Count(previous_guids, IdAt(shown[i])) > 0

====
